---- MODULE Spec2Model ----
(***************************************************************************)
(* Model of the yammy-go merge engine (internal/yaml: UpdateYAML,          *)
(* updateYamlFromStruct, updateField, updateNode, updateSequence,          *)
(* updateMapping and their helpers).                                       *)
(*                                                                         *)
(* The document tree is a heap: a sequence of node records addressed by    *)
(* their index (the *yaml.Node pointer).  A merge is a function from a     *)
(* heap to a heap plus an outcome: "ok" (nil error), "err" (an error is    *)
(* returned) or "panic" (index out of range at run time).                  *)
(* Texts (node values, keys) are sequences of one-character strings, so    *)
(* that formatting a number and reading a numeral are different things.    *)
(***************************************************************************)
EXTENDS Integers, Sequences, FiniteSets, TLC

VARIABLES
  h,      \* the heap: node records, addressed by index
  root,   \* the node the caller holds (&root)
  data,   \* the value the caller merges (newData)
  calls,  \* merges applied to the tree so far
  last,   \* the last call: "none", "merge", "UpdateYAML", "updateNode"
  target, \* the node the last call was applied to
  st,     \* outcome of the last call: "none", "ok", "err", "panic"
  pre,    \* the heap when the last call began
  h0,     \* the heap the parser produced
  out,    \* what UpdateYAML returned: "none", "nil" or "bytes"
  indent, \* detectIndentation(content)
  ord     \* data as the last call iterated it (order of its map entries)

vars == <<h, root, data, calls, last, target, st, pre, h0, out, indent, ord>>

(***************************************************************************)
(* Bounds of the model.                                                    *)
(***************************************************************************)
MaxLen == 3        \* longest sequence in a source tree / in a value
MaxOffset == 2     \* largest column of the root child in a source tree
MaxInt == 11       \* largest integer in a value
MaxCalls == 2      \* merges applied to one tree

(***************************************************************************)
(* Program constants.                                                      *)
(***************************************************************************)
DefaultIndent == 2 \* "mappingNode.Column + 2", "baseIndent := 2"

(***************************************************************************)
(* yaml.Node                                                               *)
(***************************************************************************)
\* &yaml.Node{} : the zero value of the struct.
ZeroNode ==
  [kind |-> "Zero", tag |-> "", value |-> <<>>, content |-> <<>>,
   style |-> 0, column |-> 0, line |-> 0, comment |-> 0]

\* &yaml.Node{Kind: yaml.ScalarNode, Tag: "!!str", Value: key}
NewKeyNode(key) ==
  [ZeroNode EXCEPT !.kind = "Scalar", !.tag = "!!str", !.value = key]

\* assignment to one field of the node behind a pointer
SetField(hp, n, f, x) == [hp EXCEPT ![n][f] = x]


(***************************************************************************)
(* fmt.Sprintf                                                             *)
(***************************************************************************)
DigitChar == <<"0", "1", "2", "3", "4", "5", "6", "7", "8", "9">>

RECURSIVE Digits(_)
Digits(n) ==
  IF n < 10 THEN <<DigitChar[n + 1]>>
  ELSE Digits(n \div 10) \o <<DigitChar[(n % 10) + 1]>>

\* fmt.Sprintf("%d", value.Int())
Sprintf_d(n) == IF n < 0 THEN <<"-">> \o Digits(-n) ELSE Digits(n)

\* fmt.Sprintf("%g", value.Float()) for the floats of the model, which are
\* i or i + 1/2 with i >= 0: "%g" prints the shortest form, without a
\* trailing ".0".
Sprintf_g(f) ==
  IF f.half THEN Digits(f.i) \o <<".", "5">> ELSE Digits(f.i)

\* fmt.Sprintf("%v", value.Bool())
Sprintf_bool(b) ==
  IF b THEN <<"t", "r", "u", "e">> ELSE <<"f", "a", "l", "s", "e">>

\* fmt.Sprintf("%v", iter.Key().Interface()) for a map key
Sprintf_key(k) == IF k.k \in {"string", "named"} THEN k.s ELSE Sprintf_d(k.n)

(***************************************************************************)
(* Outcomes.  A merge state is [h: heap, st: outcome].                     *)
(***************************************************************************)
Ok(hp) == [h |-> hp, st |-> "ok"]
Err(hp) == [h |-> hp, st |-> "err"]
Panic(hp) == [h |-> hp, st |-> "panic"]

(***************************************************************************)
(* findNodes: the pair whose key node's Value is key, looking at the even  *)
(* (0-based) positions; Content[i+1] is read without a length check.       *)
(***************************************************************************)
RECURSIVE findFrom(_, _, _, _)
findFrom(hp, content, key, i) ==
  IF i > Len(content) THEN [r |-> "notfound"]
  ELSE IF hp[content[i]].value = key
       THEN IF i + 1 > Len(content) THEN [r |-> "panic"]
            ELSE [r |-> "found", keyNode |-> content[i], valueNode |-> content[i + 1]]
       ELSE findFrom(hp, content, key, i + 2)

findNodes(hp, mappingNode, key) == findFrom(hp, hp[mappingNode].content, key, 1)

(***************************************************************************)
(* adjustNodeColumns                                                       *)
(***************************************************************************)
RECURSIVE adjustNodeColumns(_, _, _)
RECURSIVE adjustChildren(_, _, _, _)
adjustChildren(hp, content, offset, i) ==
  IF i > Len(content) THEN hp
  ELSE adjustChildren(adjustNodeColumns(hp, content[i], offset), content, offset, i + 1)

adjustNodeColumns(hp, node, offset) ==
  adjustChildren(IF hp[node].column > offset
                 THEN SetField(hp, node, "column", hp[node].column - offset)
                 ELSE hp,
                 hp[node].content, offset, 1)

(***************************************************************************)
(* Values (reflect.Value).  k is the reflect.Kind:                         *)
(*   "int" [n]  "uint" [n]  "float" [i, half]  "bool" [b]  "string" [s]    *)
(*   "iface" [isnil, e]   an interface{} element, nil or holding e         *)
(*   "struct" [fields]    fields: sequence of [name, tag, v]               *)
(*   "slice" [elems]      "map" [keyKind, entries]  entries: [key, v], in  *)
(*                        the order this run's iteration yields them       *)
(*   "ptr" [e]            "invalid" (reflect.ValueOf(nil))                 *)
(***************************************************************************)
RECURSIVE updateNode(_, _, _)
RECURSIVE updateYamlFromStruct(_, _, _)
RECURSIVE updateSequence(_, _, _)
RECURSIVE updateMapping(_, _, _)

(***************************************************************************)
(* createOrReuseNode: positional reuse of a sequence element.              *)
(* index is 0-based as in the source.                                      *)
(***************************************************************************)
newElemNode(hp, node, originalContent, baseIndent) ==
  IF Len(originalContent) > 0
  THEN [ZeroNode EXCEPT !.style = hp[originalContent[Len(originalContent)]].style,
                        !.column = hp[originalContent[Len(originalContent)]].column,
                        !.line = hp[originalContent[Len(originalContent)]].line]
  ELSE [ZeroNode EXCEPT !.column = hp[node].column + baseIndent]

\* a createOrReuseNode that never reuses
createOrReuseNode_fresh(hp, node, index, originalContent, baseIndent) ==
  [h |-> Append(hp, newElemNode(hp, node, originalContent, baseIndent)),
   n |-> Len(hp) + 1]

createOrReuseNode(hp, node, index, originalContent, baseIndent) ==
  IF index < Len(originalContent)
  THEN [h |-> hp, n |-> originalContent[index + 1]]
  ELSE [h |-> Append(hp, newElemNode(hp, node, originalContent, baseIndent)),
        n |-> Len(hp) + 1]

(***************************************************************************)
(* createOrReusePair: reuse of an original pair by key, else a new pair    *)
(* styled after the last original pair.                                    *)
(***************************************************************************)
\* the new key and value nodes, as a pair of records
newPairNodes(hp, node, key, originalContent, baseIndent) ==
  IF Len(originalContent) > 0
  THEN <<[NewKeyNode(key) EXCEPT
            !.style = hp[originalContent[Len(originalContent) - 1]].style,
            !.column = hp[originalContent[Len(originalContent) - 1]].column,
            !.line = hp[originalContent[Len(originalContent) - 1]].line],
         [ZeroNode EXCEPT
            !.style = hp[originalContent[Len(originalContent)]].style,
            !.column = hp[originalContent[Len(originalContent)]].column,
            !.line = hp[originalContent[Len(originalContent)]].line]>>
  ELSE <<[NewKeyNode(key) EXCEPT !.column = hp[node].column + baseIndent],
         [ZeroNode EXCEPT !.column = hp[node].column + baseIndent]>>

pairFound(f, hp, node, key, originalContent, baseIndent) ==
  IF f.r = "panic" THEN [r |-> "panic", h |-> hp]
  ELSE IF f.r = "found"
  THEN [r |-> "ok", h |-> hp, keyNode |-> f.keyNode, valueNode |-> f.valueNode]
  ELSE IF Len(originalContent) = 1
  THEN [r |-> "panic", h |-> hp]            \* originalContent[len-2] with len = 1
  ELSE [r |-> "ok", h |-> hp \o newPairNodes(hp, node, key, originalContent, baseIndent),
        keyNode |-> Len(hp) + 1, valueNode |-> Len(hp) + 2]

createOrReusePair(hp, node, key, originalContent, baseIndent) ==
  pairFound(findFrom(hp, originalContent, key, 1), hp, node, key,
            originalContent, baseIndent)

(***************************************************************************)
(* updateNode                                                              *)
(***************************************************************************)
ScalarTag(v) ==
  CASE v.k = "int" -> "!!int"
    [] v.k = "float" -> "!!float"
    [] v.k = "bool" -> "!!bool"
    [] OTHER -> "!!str"

ScalarText(v) ==
  CASE v.k = "int" -> Sprintf_d(v.n)
    [] v.k = "float" -> Sprintf_g(v)
    [] v.k = "bool" -> Sprintf_bool(v.b)
    [] v.k = "string" -> v.s
    [] OTHER -> Sprintf_d(v.n)     \* "%v" of an unsigned integer

\* a scalar branch that replaces the node's head comment as well
updateScalar_fresh(hp, node, v) ==
  [hp EXCEPT ![node].kind = "Scalar",
             ![node].tag = ScalarTag(v),
             ![node].value = ScalarText(v),
             ![node].comment = 0]

\* the default branch: a scalar.  Content is left as it is.
updateScalar(hp, node, v) ==
  [hp EXCEPT ![node].kind = "Scalar",
             ![node].tag = ScalarTag(v),
             ![node].value = ScalarText(v)]

\* node.Style = originalStyle; node.Column = originalColumn
restoreStyleColumn(hp, node, originalStyle, originalColumn) ==
  [hp EXCEPT ![node].style = originalStyle, ![node].column = originalColumn]

\* an updateNode that does not put the style and the column back
updateNodeEnd_norestore(r, node, originalStyle, originalColumn) == r

\* the end of updateNode, given the outcome r of its switch
updateNodeEnd(r, node, originalStyle, originalColumn) ==
  IF r.st # "ok" THEN r
  ELSE Ok(restoreStyleColumn(r.h, node, originalStyle, originalColumn))

updateNode(hp, node, v) ==
  IF v.k = "iface" /\ ~v.isnil
  THEN updateNode(hp, node, v.e)              \* return updateNode(node, value.Elem())
  ELSE updateNodeEnd(
         CASE v.k = "iface" -> Ok(hp)
           [] v.k = "struct" -> updateYamlFromStruct(hp, node, v)
           [] v.k = "slice" -> updateSequence(hp, node, v)
           [] v.k = "map" -> updateMapping(hp, node, v)
           [] OTHER -> Ok(updateScalar(hp, node, v)),
         node, hp[node].style, hp[node].column)

(***************************************************************************)
(* updateSequence                                                          *)
(***************************************************************************)
RECURSIVE seqLoop(_, _, _, _, _, _, _)
RECURSIVE seqElem(_, _, _, _, _, _, _)
RECURSIVE seqNext(_, _, _, _, _, _, _, _)

\* the loop's test
seqLoop(hp, node, elems, originalContent, baseIndent, i, newContent) ==
  IF i > Len(elems) THEN [h |-> hp, st |-> "ok", nc |-> newContent]
  ELSE seqElem(createOrReuseNode(hp, node, i - 1, originalContent, baseIndent),
               node, elems, originalContent, baseIndent, i, newContent)

\* the loop's body, given the element node c
seqElem(c, node, elems, originalContent, baseIndent, i, newContent) ==
  seqNext(updateNode(c.h, c.n, elems[i]), c.n,
          node, elems, originalContent, baseIndent, i, newContent)

\* the end of the body, given the outcome u of updateNode
seqNext(u, elemNode, node, elems, originalContent, baseIndent, i, newContent) ==
  IF u.st # "ok" THEN [h |-> u.h, st |-> u.st, nc |-> newContent]
  ELSE seqLoop(u.h, node, elems, originalContent, baseIndent, i + 1,
               Append(newContent, elemNode))

\* baseIndent := 2; if len(originalContent) > 0 { ...[0].Column - node.Column }
baseIndentOf(hp, node) ==
  IF Len(hp[node].content) > 0
  THEN hp[hp[node].content[1]].column - hp[node].column
  ELSE DefaultIndent

\* the end of updateSequence and of updateMapping, given the loop's outcome
rebuildEnd(l, node, originalStyle, originalColumn) ==
  IF l.st # "ok" THEN [h |-> l.h, st |-> l.st]
  ELSE Ok([l.h EXCEPT ![node].content = l.nc,
                      ![node].style = originalStyle,
                      ![node].column = originalColumn])

updateSequence(hp, node, v) ==
  rebuildEnd(seqLoop([hp EXCEPT ![node].kind = "Sequence", ![node].tag = "!!seq"],
                     node, v.elems, hp[node].content, baseIndentOf(hp, node), 1, <<>>),
             node, hp[node].style, hp[node].column)

(***************************************************************************)
(* updateMapping                                                           *)
(***************************************************************************)
RECURSIVE mapLoop(_, _, _, _, _, _, _)
RECURSIVE mapEntry(_, _, _, _, _, _, _)
RECURSIVE mapNext(_, _, _, _, _, _, _, _, _)

\* the loop's test
mapLoop(hp, node, entries, originalContent, baseIndent, i, newContent) ==
  IF i > Len(entries) THEN [h |-> hp, st |-> "ok", nc |-> newContent]
  ELSE mapEntry(createOrReusePair(hp, node, Sprintf_key(entries[i].key),
                                  originalContent, baseIndent),
                node, entries, originalContent, baseIndent, i, newContent)

\* the loop's body, given the pair c
mapEntry(c, node, entries, originalContent, baseIndent, i, newContent) ==
  IF c.r = "panic" THEN [h |-> c.h, st |-> "panic", nc |-> newContent]
  ELSE mapNext(updateNode(c.h, c.valueNode, entries[i].v), c.keyNode, c.valueNode,
               node, entries, originalContent, baseIndent, i, newContent)

\* the end of the body, given the outcome u of updateNode
mapNext(u, keyNode, valueNode, node, entries, originalContent, baseIndent, i, newContent) ==
  IF u.st # "ok" THEN [h |-> u.h, st |-> u.st, nc |-> newContent]
  ELSE mapLoop(u.h, node, entries, originalContent, baseIndent, i + 1,
               newContent \o <<keyNode, valueNode>>)

updateMapping(hp, node, v) ==
  rebuildEnd(mapLoop([hp EXCEPT ![node].kind = "Mapping", ![node].tag = "!!map"],
                     node, v.entries, hp[node].content, baseIndentOf(hp, node), 1, <<>>),
             node, hp[node].style, hp[node].column)

(***************************************************************************)
(* The lookup and synthesis of a pair in updateField and in the            *)
(* reflect.Map case of updateYamlFromStruct: the pair found by findNodes,  *)
(* else a new pair with the style and column of the first pair (else       *)
(* mappingNode.Column + 2), appended to mappingNode.Content.               *)
(* Content[1] is read whenever Content is not empty.                       *)
(***************************************************************************)
firstPairNodes(hp, mappingNode, key) ==
  IF Len(hp[mappingNode].content) > 0
  THEN <<[NewKeyNode(key) EXCEPT !.style = hp[hp[mappingNode].content[1]].style,
                                 !.column = hp[hp[mappingNode].content[1]].column],
         [ZeroNode EXCEPT !.style = hp[hp[mappingNode].content[2]].style,
                          !.column = hp[hp[mappingNode].content[2]].column]>>
  ELSE <<[NewKeyNode(key) EXCEPT !.column = hp[mappingNode].column + DefaultIndent],
         [ZeroNode EXCEPT !.column = hp[mappingNode].column + DefaultIndent]>>

\* an append that puts the new pair in front of the children list
appendPair_front(hp, mappingNode, key) ==
  IF Len(hp[mappingNode].content) = 1 THEN [r |-> "panic", h |-> hp]
  ELSE [r |-> "ok",
        h |-> [(hp \o firstPairNodes(hp, mappingNode, key)) EXCEPT
                 ![mappingNode].content = <<Len(hp) + 1, Len(hp) + 2>> \o @],
        valueNode |-> Len(hp) + 2]

appendPair(hp, mappingNode, key) ==
  IF Len(hp[mappingNode].content) = 1 THEN [r |-> "panic", h |-> hp]
  ELSE [r |-> "ok",
        h |-> [(hp \o firstPairNodes(hp, mappingNode, key)) EXCEPT
                 ![mappingNode].content = @ \o <<Len(hp) + 1, Len(hp) + 2>>],
        valueNode |-> Len(hp) + 2]

pairOrNew(fn, hp, mappingNode, key) ==
  IF fn.r = "panic" THEN [r |-> "panic", h |-> hp]
  ELSE IF fn.r = "found" THEN [r |-> "ok", h |-> hp, valueNode |-> fn.valueNode]
  ELSE appendPair(hp, mappingNode, key)

findOrAppend(hp, mappingNode, key) ==
  pairOrNew(findNodes(hp, mappingNode, key), hp, mappingNode, key)

\* the resolved external name of a field: its yaml tag, else its Go name
yamlTagOf(f) == IF f.tag = <<>> THEN f.name ELSE f.tag

\* return updateNode(valueNode, fieldValue), given the pair p
updateFieldValue(p, v) ==
  IF p.r = "panic" THEN Panic(p.h) ELSE updateNode(p.h, p.valueNode, v)

updateField(hp, mappingNode, f) ==
  updateFieldValue(findOrAppend(hp, mappingNode, yamlTagOf(f)), f.v)

(***************************************************************************)
(* updateYamlFromStruct                                                    *)
(***************************************************************************)
RECURSIVE fieldLoop(_, _, _, _)
RECURSIVE fieldNext(_, _, _, _)
fieldLoop(hp, mappingNode, fields, i) ==
  IF i > Len(fields) THEN Ok(hp)
  ELSE fieldNext(updateField(hp, mappingNode, fields[i]), mappingNode, fields, i)

fieldNext(u, mappingNode, fields, i) ==
  IF u.st # "ok" THEN u ELSE fieldLoop(u.h, mappingNode, fields, i + 1)

\* for _, key := range val.MapKeys() { ... }   (keys are strings here)
RECURSIVE topMapLoop(_, _, _, _)
RECURSIVE topMapNext(_, _, _, _)
topMapLoop(hp, mappingNode, entries, i) ==
  IF i > Len(entries) THEN Ok(hp)
  ELSE topMapNext(updateFieldValue(findOrAppend(hp, mappingNode, entries[i].key.s),
                                   entries[i].v),
                  mappingNode, entries, i)

topMapNext(u, mappingNode, entries, i) ==
  IF u.st # "ok" THEN u ELSE topMapLoop(u.h, mappingNode, entries, i + 1)

\* the Document branch: unwrap the single child and rebase the columns
unwrapDocument(hp, node) ==
  adjustNodeColumns(
    [hp EXCEPT ![node].column = 0, ![hp[node].content[1]].column = 0],
    hp[node].content[1], hp[hp[node].content[1]].column)

\* if mappingNode.Kind != yaml.MappingNode { Kind = MappingNode; Tag = "!!map" }
retagMapping(hp, mappingNode) ==
  IF hp[mappingNode].kind # "Mapping"
  THEN [hp EXCEPT ![mappingNode].kind = "Mapping", ![mappingNode].tag = "!!map"]
  ELSE hp

\* a switch that hands a slice to updateSequence instead of refusing it
mergeInto_anyshape(hp, mappingNode, val) ==
  CASE val.k = "struct" -> fieldLoop(hp, mappingNode, val.fields, 1)
    [] val.k = "map" ->
         IF val.keyKind # "string" THEN Err(hp)
         ELSE topMapLoop(hp, mappingNode, val.entries, 1)
    [] val.k = "slice" -> updateSequence(hp, mappingNode, val)
    [] OTHER -> Err(hp)

\* a Record merge that starts from an empty children list
mergeInto_replacing(hp, mappingNode, val) ==
  CASE val.k = "struct" ->
         fieldLoop([hp EXCEPT ![mappingNode].content = <<>>], mappingNode, val.fields, 1)
    [] val.k = "map" ->
         IF val.keyKind # "string" THEN Err(hp)
         ELSE topMapLoop(hp, mappingNode, val.entries, 1)
    [] OTHER -> Err(hp)

\* the switch on val.Kind(), on the mapping node
mergeInto(hp, mappingNode, val) ==
  CASE val.k = "struct" -> fieldLoop(hp, mappingNode, val.fields, 1)
    [] val.k = "map" ->
         IF val.keyKind # "string" THEN Err(hp)
         ELSE topMapLoop(hp, mappingNode, val.entries, 1)
    [] OTHER -> Err(hp)

\* if val.Kind() == reflect.Ptr { val = val.Elem() }
derefPtr(dat) == IF dat.k = "ptr" THEN dat.e ELSE dat

\* a merge that rejects only a document without children
updateYamlFromStruct_lenient(hp, node, dat) ==
  IF hp[node].kind = "Document"
  THEN IF Len(hp[node].content) = 0 THEN Err(hp)
       ELSE mergeInto(retagMapping(unwrapDocument(hp, node), hp[node].content[1]),
                      hp[node].content[1], derefPtr(dat))
  ELSE mergeInto(retagMapping(hp, node), node, derefPtr(dat))

updateYamlFromStruct(hp, node, dat) ==
  IF hp[node].kind = "Document"
  THEN IF Len(hp[node].content) # 1 THEN Err(hp)
       ELSE mergeInto(retagMapping(unwrapDocument(hp, node), hp[node].content[1]),
                      hp[node].content[1], derefPtr(dat))
  ELSE mergeInto(retagMapping(hp, node), node, derefPtr(dat))

(***************************************************************************)
(* Source trees.  yaml.Unmarshal(content, &root) is described by a tree     *)
(* descriptor and built into a heap with the columns a block-style source   *)
(* has: a key at its mapping's column, a scalar value after "key: ", a      *)
(* nested collection one indent deeper (a flush block sequence at its      *)
(* key's own column), a sequence element after "- ".                        *)
(*   [t |-> "S", tag, text, style, cm]      scalar                         *)
(*   [t |-> "Q", kids, style, cm, flush]    sequence                       *)
(*   [t |-> "M", pairs, style, cm]          mapping, pairs: [key, kcm, v]   *)
(*   [t |-> "D", kids]                      document                       *)
(* cm, kcm: the comment attached to the node (0: none).                    *)
(***************************************************************************)
RECURSIVE Build(_, _, _, _)
RECURSIVE BuildKids(_, _, _, _, _, _)
RECURSIVE BuildPairs(_, _, _, _, _, _)

\* the elements of a sequence (or the children of a document), in order
BuildKids(hp, kids, col, width, i, acc) ==
  IF i > Len(kids) THEN [h |-> hp, ids |-> acc]
  ELSE LET b == Build(hp, kids[i], col, width)
       IN BuildKids(b.h, kids, col, width, i + 1, Append(acc, b.n))

\* the key and value nodes of a mapping, alternating
BuildPairs(hp, pairs, col, width, i, acc) ==
  IF i > Len(pairs) THEN [h |-> hp, ids |-> acc]
  ELSE LET p == pairs[i]
           keyNode == [NewKeyNode(p.key) EXCEPT !.column = col,
                                                !.line = Len(hp) + 1,
                                                !.comment = p.kcm]
           vcol == IF p.v.t = "S" THEN col + Len(p.key) + 2
                   ELSE IF p.v.t = "Q" /\ p.v.flush THEN col
                   ELSE col + width
           b == Build(Append(hp, keyNode), p.v, vcol, width)
       IN BuildPairs(b.h, pairs, col, width, i + 1, acc \o <<Len(hp) + 1, b.n>>)

Build(hp, d, col, width) ==
  LET n == Len(hp) + 1
      base == [ZeroNode EXCEPT !.column = col, !.line = n]
  IN CASE d.t = "S" ->
            [h |-> Append(hp, [base EXCEPT !.kind = "Scalar", !.tag = d.tag,
                                           !.value = d.text, !.style = d.style,
                                           !.comment = d.cm]),
             n |-> n]
       [] d.t = "Q" ->
            LET k == BuildKids(Append(hp, [base EXCEPT !.kind = "Sequence",
                                                       !.tag = "!!seq",
                                                       !.style = d.style,
                                                       !.comment = d.cm]),
                               d.kids, col + DefaultIndent, width, 1, <<>>)
            IN [h |-> SetField(k.h, n, "content", k.ids), n |-> n]
       [] d.t = "M" ->
            LET k == BuildPairs(Append(hp, [base EXCEPT !.kind = "Mapping",
                                                        !.tag = "!!map",
                                                        !.style = d.style,
                                                        !.comment = d.cm]),
                                d.pairs, col, width, 1, <<>>)
            IN [h |-> SetField(k.h, n, "content", k.ids), n |-> n]
       [] d.t = "D" ->
            LET k == BuildKids(Append(hp, [base EXCEPT !.kind = "Document"]),
                               d.kids, col, width, 1, <<>>)
            IN [h |-> SetField(k.h, n, "content", k.ids), n |-> n]

\* the heap of a parsed source whose root child is at column col; the node
\* the caller holds is node 1
Parse(d, col, width) == Build(<<>>, d, col, width).h

(***************************************************************************)
(* The sources of the model.                                               *)
(***************************************************************************)
Sc(tag, text, style, cm) == [t |-> "S", tag |-> tag, text |-> text, style |-> style, cm |-> cm]
Qd(kids, cm) == [t |-> "Q", kids |-> kids, style |-> 0, cm |-> cm, flush |-> FALSE]
\* a block sequence written at the column of its key ("a:" then "- x")
Qf(kids, cm) == [t |-> "Q", kids |-> kids, style |-> 0, cm |-> cm, flush |-> TRUE]
Md(pairs, cm) == [t |-> "M", pairs |-> pairs, style |-> 0, cm |-> cm]
Pr(key, kcm, v) == [key |-> key, kcm |-> kcm, v |-> v]
Doc(kids) == [t |-> "D", kids |-> kids]

\* a sequence of n commented string scalars
SeqOf(n) == Qd([i \in 1..n |-> Sc("!!str", <<"x", DigitChar[i + 1]>>, 0, 30 + i)], 22)

\* name: "x"  # 12        (double-quoted)
\* b: 1       # 13
PlainMap ==
  Md(<<Pr(<<"a">>, 11, Sc("!!str", <<"x">>, 1, 12)),
       Pr(<<"b">>, 0, Sc("!!int", <<"1">>, 0, 13))>>, 10)

\* a: [n elements]   b: 1
SeqMap(n) ==
  Md(<<Pr(<<"a">>, 21, SeqOf(n)),
       Pr(<<"b">>, 0, Sc("!!int", <<"1">>, 0, 23))>>, 20)

\* a: {c: 1, d: y}
NestedMap ==
  Md(<<Pr(<<"a">>, 40,
          Md(<<Pr(<<"c">>, 41, Sc("!!int", <<"1">>, 0, 42)),
               Pr(<<"d">>, 43, Sc("!!str", <<"y">>, 0, 44))>>, 45))>>, 46)

\* a: 0x1    b: 1.0     (numerals that are not in the form Sprintf prints)
HexMap ==
  Md(<<Pr(<<"a">>, 0, Sc("!!int", <<"0", "x", "1">>, 0, 51)),
       Pr(<<"b">>, 0, Sc("!!float", <<"1", ".", "0">>, 0, 52))>>, 0)

\* a: [{c: 1}, {c: 2}]
ListOfMaps ==
  Md(<<Pr(<<"a">>, 60,
          Qd(<<Md(<<Pr(<<"c">>, 61, Sc("!!int", <<"1">>, 0, 62))>>, 63),
               Md(<<Pr(<<"c">>, 64, Sc("!!int", <<"2">>, 0, 65))>>, 66)>>, 67))>>, 68)

\* a:        (the sequence is not indented under its key)
\* - x1
\* - x2
FlushSeqMap ==
  Md(<<Pr(<<"a">>, 0, Qf(<<Sc("!!str", <<"x", "1">>, 0, 0),
                           Sc("!!str", <<"x", "2">>, 0, 0)>>, 0))>>, 0)

EmptyMap == Md(<<>>, 0)
RootScalar == Sc("!!str", <<"x">>, 1, 71)

RootShapes ==
  {PlainMap, NestedMap, HexMap, ListOfMaps, FlushSeqMap, EmptyMap, RootScalar}
    \cup {SeqMap(n) : n \in 0..MaxLen}
    \cup {SeqOf(n) : n \in 0..MaxLen}

\* what the caller holds: a document with its root child, a document with no
\* child or with two, or a node of a tree (updateYamlFromStruct on a subtree)
Sources ==
  {Doc(<<r>>) : r \in RootShapes} \cup RootShapes
    \cup {Doc(<<>>), Doc(<<PlainMap, RootScalar>>)}

Indents == {2, 4}

\* detectIndentation returns the leading spaces of the first indented line,
\* and 2 when no line is indented: a source without a nested collection
\* written under its key with an indent
Indented(v) == v.t # "S" /\ ~(v.t = "Q" /\ v.flush)

HasNested(d) ==
  \/ d.t = "D" /\ \E i \in 1..Len(d.kids) : d.kids[i].t = "M" /\ \E j \in 1..Len(d.kids[i].pairs) : Indented(d.kids[i].pairs[j].v)
  \/ d.t = "M" /\ \E j \in 1..Len(d.pairs) : Indented(d.pairs[j].v)

detectIndentation(d) == IF HasNested(d) THEN Indents ELSE {DefaultIndent}

(***************************************************************************)
(* The values of the model.                                                *)
(***************************************************************************)
IntV(n) == [k |-> "int", n |-> n]
UintV(n) == [k |-> "uint", n |-> n]
FloatV(i, half) == [k |-> "float", i |-> i, half |-> half]
BoolV(b) == [k |-> "bool", b |-> b]
StrV(s) == [k |-> "string", s |-> s]
NilV == [k |-> "iface", isnil |-> TRUE]
Iface(e) == [k |-> "iface", isnil |-> FALSE, e |-> e]
StructV(fields) == [k |-> "struct", fields |-> fields]
Fld(name, tag, v) == [name |-> name, tag |-> tag, v |-> v]
SliceV(elems) == [k |-> "slice", elems |-> elems]
MapV(keyKind, entries) == [k |-> "map", keyKind |-> keyKind, entries |-> entries]
SKey(s) == [k |-> "string", s |-> s]
IKey(n) == [k |-> "int", n |-> n]
\* a key of a named string type (type K string) held in an interface
NKey(s) == [k |-> "named", s |-> s]
Ent(key, v) == [key |-> key, v |-> v]
PtrV(e) == [k |-> "ptr", e |-> e]
Invalid == [k |-> "invalid"]

FldA(v) == Fld(<<"A">>, <<"a">>, v)
FldB(v) == Fld(<<"B">>, <<"b">>, v)
FldC(v) == Fld(<<"C">>, <<"c">>, v)
FldD(v) == Fld(<<"D">>, <<"d">>, v)
FldZ(v) == Fld(<<"Z">>, <<>>, v)          \* a field without a yaml tag

Scalars ==
  {IntV(n) : n \in -1..MaxInt}
    \cup {UintV(1), FloatV(1, FALSE), FloatV(1, TRUE), BoolV(TRUE),
          StrV(<<"x">>), StrV(<<"y">>)}

Slices ==
  {SliceV([i \in 1..n |-> IntV(i)]) : n \in 0..MaxLen}
    \cup {SliceV(<<StrV(<<"x">>)>>),
          SliceV(<<Iface(IntV(1)), NilV>>),
          SliceV(<<StructV(<<FldC(IntV(1))>>)>>),
          SliceV(<<StructV(<<FldC(IntV(5))>>), StructV(<<FldC(IntV(6))>>),
                   StructV(<<FldC(IntV(7))>>)>>),
          SliceV(<<MapV("int", <<Ent(IKey(1), StrV(<<"x">>))>>)>>)}

Maps ==
  {MapV("string", <<>>),
   MapV("string", <<Ent(SKey(<<"c">>), IntV(1))>>),
   MapV("string", <<Ent(SKey(<<"c">>), IntV(1)), Ent(SKey(<<"d">>), StrV(<<"y">>))>>),
   MapV("string", <<Ent(SKey(<<"c">>), IntV(3)), Ent(SKey(<<"z">>), IntV(2))>>),
   MapV("string", <<Ent(SKey(<<"z">>), Iface(IntV(1)))>>),
   MapV("string", <<Ent(SKey(<<"c">>), SliceV(<<StrV(<<"x">>), StrV(<<"y">>)>>))>>),
   MapV("string", <<Ent(SKey(<<"c">>), MapV("int", <<Ent(IKey(2), IntV(2))>>))>>),
   MapV("int", <<Ent(IKey(1), StrV(<<"x">>))>>),
   MapV("int", <<Ent(IKey(1), IntV(1)), Ent(IKey(10), IntV(2))>>),
   \* map[interface{}]int{"c": 4, K("c"): 5}: two keys that print alike
   MapV("interface", <<Ent(SKey(<<"c">>), IntV(4)), Ent(NKey(<<"c">>), IntV(5))>>)}

Structs ==
  {StructV(<<FldC(IntV(1))>>),
   StructV(<<FldC(IntV(1)), FldD(StrV(<<"y">>))>>),
   StructV(<<FldC(IntV(4)), FldZ(IntV(2))>>),
   StructV(<<FldZ(StrV(<<"x">>))>>),
   StructV(<<FldC(MapV("int", <<Ent(IKey(1), StrV(<<"x">>))>>))>>),
   StructV(<<>>)}

Nested == Scalars \cup Slices \cup Maps \cup Structs \cup {NilV}

FewNested ==
  {IntV(1), IntV(2), StrV(<<"x">>), SliceV(<<IntV(1), IntV(2)>>),
   MapV("string", <<Ent(SKey(<<"c">>), IntV(1))>>),
   StructV(<<FldC(IntV(1))>>)}

\* what the caller passes as newData
Values ==
  {StructV(<<FldA(v)>>) : v \in Nested}
    \cup {StructV(<<FldA(v), FldB(IntV(2))>>) : v \in FewNested}
    \cup {StructV(<<FldA(v), FldZ(w)>>) : v \in FewNested, w \in {IntV(3), StructV(<<FldC(IntV(1))>>)}}
    \cup {StructV(<<FldA(v), FldA(IntV(2))>>) : v \in FewNested}
    \cup {PtrV(StructV(<<FldA(v)>>)) : v \in FewNested}
    \cup {MapV("string", <<Ent(SKey(<<"a">>), v)>>) : v \in FewNested \cup {Iface(IntV(1)), NilV}}
    \cup {MapV("string", <<Ent(SKey(<<"a">>), v), Ent(SKey(<<"z">>), IntV(2))>>) : v \in FewNested}
    \cup {MapV("string", <<>>), MapV("string", <<Ent(SKey(<<"z">>), IntV(1))>>),
          MapV("int", <<Ent(IKey(1), IntV(1))>>),
          PtrV(Invalid), Invalid, IntV(1), StrV(<<"x">>),
          SliceV(<<IntV(1), IntV(2)>>), StructV(<<>>)}

(***************************************************************************)
(* Map iteration order.  reflect's MapKeys and MapRange yield the entries  *)
(* of a map in an unspecified order that differs from run to run; a run    *)
(* of a merge is the merge of one ordering of the value.                   *)
(***************************************************************************)
Perms(n) == {p \in [1..n -> 1..n] : \A i, j \in 1..n : p[i] = p[j] => i = j}

\* the sequences s with s[i] \in sets[i]
RECURSIVE Choices(_)
Choices(sets) ==
  IF Len(sets) = 0 THEN {<<>>}
  ELSE {<<x>> \o rest : x \in sets[1], rest \in Choices(Tail(sets))}

RECURSIVE Orderings(_)
Orderings(v) ==
  CASE v.k = "iface" -> IF v.isnil THEN {v} ELSE {Iface(e) : e \in Orderings(v.e)}
    [] v.k = "ptr" -> {PtrV(e) : e \in Orderings(v.e)}
    [] v.k = "slice" ->
         {SliceV(es) : es \in Choices([i \in 1..Len(v.elems) |-> Orderings(v.elems[i])])}
    [] v.k = "struct" ->
         {StructV([i \in 1..Len(v.fields) |-> [v.fields[i] EXCEPT !.v = vs[i]]]) :
            vs \in Choices([i \in 1..Len(v.fields) |-> Orderings(v.fields[i].v)])}
    [] v.k = "map" ->
         {MapV(v.keyKind, [i \in 1..Len(v.entries) |-> [v.entries[p[i]] EXCEPT !.v = vs[p[i]]]]) :
            p \in Perms(Len(v.entries)),
            vs \in Choices([i \in 1..Len(v.entries) |-> Orderings(v.entries[i].v)])}
    [] OTHER -> {v}

(***************************************************************************)
(* UpdateYAML, after the parse: merge, then root.Column = 0 and            *)
(* root.Content[0].Column = 0, then encode.                                *)
(***************************************************************************)
normalizeRoot(hp, node) ==
  IF Len(hp[node].content) > 0
  THEN [hp EXCEPT ![node].column = 0, ![hp[node].content[1]].column = 0]
  ELSE [hp EXCEPT ![node].column = 0]

\* the end of UpdateYAML, given the outcome m of the merge
UpdateYAMLEnd(m, node) ==
  IF m.st = "ok"
  THEN [h |-> normalizeRoot(m.h, node), st |-> "ok", out |-> "bytes"]
  ELSE IF m.st = "err" THEN [h |-> m.h, st |-> "err", out |-> "nil"]
  ELSE [h |-> m.h, st |-> "panic", out |-> "none"]

UpdateYAMLResult(hp, node, dat) ==
  UpdateYAMLEnd(updateYamlFromStruct(hp, node, dat), node)

(***************************************************************************)
(* The state machine.                                                      *)
(***************************************************************************)
Init ==
  /\ \E src \in Sources, col \in 0..MaxOffset :
       \E ind \in detectIndentation(src) :
         /\ h = Parse(src, col, ind)
         /\ indent = ind
  /\ root = 1
  /\ data \in Values \cup Nested
  /\ calls = 0
  /\ last = "none"
  /\ target = root
  /\ st = "none"
  /\ pre = h
  /\ h0 = h
  /\ out = "none"
  /\ ord = data

\* updateYamlFromStruct(&root, newData), called on the tree as it is now
Merge ==
  /\ calls < MaxCalls
  /\ st \in {"none", "ok"}
  /\ last \in {"none", "merge"}
  /\ \E d \in Orderings(data) :
       /\ ord' = d
       /\ \E m \in {updateYamlFromStruct(h, root, d)} :
            /\ h' = m.h
            /\ st' = m.st
  /\ pre' = h
  /\ calls' = calls + 1
  /\ last' = "merge"
  /\ target' = root
  /\ UNCHANGED <<root, data, h0, out, indent>>

\* UpdateYAML(content, newData), on a freshly parsed source
UpdateYAML ==
  /\ calls = 0
  /\ h[root].kind = "Document"
  /\ \E d \in Orderings(data) :
       /\ ord' = d
       /\ \E r \in {UpdateYAMLResult(h, root, d)} :
            /\ h' = r.h
            /\ st' = r.st
            /\ out' = r.out
  /\ pre' = h
  /\ calls' = calls + 1
  /\ last' = "UpdateYAML"
  /\ target' = root
  /\ UNCHANGED <<root, data, h0, indent>>

\* the root value node: the document's single child, or the node itself
RootValue(hp) ==
  IF hp[root].kind = "Document" /\ Len(hp[root].content) > 0
  THEN hp[root].content[1] ELSE root

\* the nodes updateNode is applied to: the node the caller holds, the root
\* value node and its children
UpdateTargets(hp) ==
  {root, RootValue(hp)} \cup {hp[RootValue(hp)].content[i] : i \in 1..Len(hp[RootValue(hp)].content)}

\* updateNode(node, value) on a node of the parsed tree
UpdateNode ==
  /\ calls = 0
  /\ data \in Nested
  /\ \E n \in UpdateTargets(h), d \in Orderings(data) :
       /\ target' = n
       /\ ord' = d
       /\ \E m \in {updateNode(h, n, d)} :
            /\ h' = m.h
            /\ st' = m.st
  /\ pre' = h
  /\ calls' = calls + 1
  /\ last' = "updateNode"
  /\ UNCHANGED <<root, data, h0, out, indent>>

Next == Merge \/ UpdateYAML \/ UpdateNode

Spec == Init /\ [][Next]_vars

(***************************************************************************)
(* Vocabulary of the properties.                                           *)
(***************************************************************************)
Range(f) == {f[i] : i \in DOMAIN f}

\* the nodes reachable from n through Content
RECURSIVE ReachSet(_, _, _)
ReachSet(hp, frontier, seen) ==
  IF frontier = {} THEN seen
  ELSE ReachSet(hp, (UNION {Range(hp[m].content) : m \in frontier}) \ seen,
                seen \cup (UNION {Range(hp[m].content) : m \in frontier}))

Reach(hp, n) == ReachSet(hp, {n}, {n})

\* the positions of the key nodes of complete pairs in a children list
KeyPositions(content) == {i \in 1..Len(content) : i % 2 = 1 /\ i + 1 <= Len(content)}

\* the key texts of a mapping node
KeysOf(hp, n) == {hp[hp[n].content[i]].value : i \in KeyPositions(hp[n].content)}

\* the node a merge works on: the single child of a document, else the node
MergeNode(hp, n) == IF hp[n].kind = "Document" THEN hp[n].content[1] ELSE n

\* the heap when the merge proper begins: a document's columns are rebased
\* before the switch on the value's kind
Rebased(hp, n) == IF hp[n].kind = "Document" THEN unwrapDocument(hp, n) ELSE hp

\* the two trees are equal node by node: kind, tag, value, style, column,
\* comment and the children in order
RECURSIVE TreeEq(_, _, _, _)
TreeEq(ha, a, hb, b) ==
  /\ ha[a].kind = hb[b].kind
  /\ ha[a].tag = hb[b].tag
  /\ ha[a].value = hb[b].value
  /\ ha[a].style = hb[b].style
  /\ ha[a].column = hb[b].column
  /\ ha[a].comment = hb[b].comment
  /\ Len(ha[a].content) = Len(hb[b].content)
  /\ \A i \in 1..Len(ha[a].content) : TreeEq(ha, ha[a].content[i], hb, hb[b].content[i])

\* reading a numeral (the reverse of printing one)
IsDigit(c) == \E d \in 1..10 : DigitChar[d] = c
DigitVal(c) == (CHOOSE d \in 1..10 : DigitChar[d] = c) - 1

RECURSIVE NatOf(_, _)
NatOf(t, base) ==
  IF Len(t) = 0 THEN 0
  ELSE NatOf(SubSeq(t, 1, Len(t) - 1), base) * base + DigitVal(t[Len(t)])

AllDigits(t) == Len(t) >= 1 /\ \A i \in 1..Len(t) : IsDigit(t[i])

\* t is the decimal text form of an integer: no leading zero, no "-0"
IsDecimalText(t) ==
  \/ AllDigits(t) /\ (Len(t) > 1 => t[1] # "0")
  \/ /\ Len(t) >= 2 /\ t[1] = "-" /\ AllDigits(Tail(t))
     /\ Tail(t)[1] # "0"

DecimalValue(t) == IF t[1] = "-" THEN 0 - NatOf(Tail(t), 10) ELSE NatOf(t, 10)

\* the integer a YAML !!int scalar denotes: decimal, or hexadecimal after 0x
IsHexText(t) == Len(t) >= 3 /\ t[1] = "0" /\ t[2] = "x" /\ AllDigits(SubSeq(t, 3, Len(t)))
IsIntText(t) == IsHexText(t) \/ IsDecimalText(t)
IntDenoted(t) == IF IsHexText(t) THEN NatOf(SubSeq(t, 3, Len(t)), 16) ELSE DecimalValue(t)

\* the texts of a YAML !!float scalar that denote i or i + 1/2
FloatTexts(f) ==
  IF f.half THEN {Digits(f.i) \o <<".", "5">>, Digits(f.i) \o <<".", "5", "0">>}
  ELSE {Digits(f.i), Digits(f.i) \o <<".", "0">>}

\* the scalar node (tag, text) denotes the scalar value v
Denotes(tag, text, v) ==
  CASE v.k = "int" -> tag = "!!int" /\ IsIntText(text) /\ IntDenoted(text) = v.n
    [] v.k = "float" -> tag = "!!float" /\ text \in FloatTexts(v)
    [] v.k = "bool" -> tag = "!!bool" /\ v.b /\ text \in {<<"t", "r", "u", "e">>, <<"T", "r", "u", "e">>}
    [] v.k = "string" -> tag = "!!str" /\ text = v.s
    [] OTHER -> FALSE

IsScalarValue(v) == v.k \in {"int", "uint", "float", "bool", "string"}

\* the last call was a merge of a value into the tree
Called == last \in {"merge", "UpdateYAML", "updateNode"}
TopCalled == last \in {"merge", "UpdateYAML"}

\* the value of the last call, behind a pointer if it was one
CallValue == derefPtr(ord)

\* the node the last call merged its value into: updateYamlFromStruct
\* unwraps a document, updateSequence and updateMapping take the node
Merged ==
  IF last = "updateNode" /\ ord.k # "struct" THEN target ELSE MergeNode(pre, target)

\* the resolved names of a Record's fields
FieldNames(v) == {yamlTagOf(v.fields[i]) : i \in 1..Len(v.fields)}

(***************************************************************************)
(* C1.  Whenever updateNode returns without error, the node's Style and     *)
(* Column are what they were immediately before the call, for every node   *)
(* and every value shape, also when the merge changed the node's kind.     *)
(***************************************************************************)
StyleColumnSurvive ==
  (last = "updateNode" /\ st = "ok")
    => /\ h[target].style = pre[target].style
       /\ h[target].column = pre[target].column

\* a document node at a column other than 0 has become a mapping ...
KindChangedStyleKept ==
  /\ last = "updateNode" /\ st = "ok"
  /\ pre[target].kind = "Document" /\ h[target].kind = "Mapping"
  /\ pre[target].column # 0
  /\ h[root].content # pre[root].content

(***************************************************************************)
(* C2.  Record additivity.  After a Record merge into a Mapping node,      *)
(* every pair of the node whose key is not the resolved name of a field    *)
(* is still there, at its place, with the same key node and value node,    *)
(* and no node below them has been modified.  The same holds of a Record   *)
(* merged into the value of one of its fields.                             *)
(***************************************************************************)
\* the pairs of n (in the heap hb the merge began with) that the Record v
\* does not name are unmodified in the heap ha
RECURSIVE Additive(_, _, _, _)
Additive(hb, ha, n, v) ==
  \A i \in KeyPositions(hb[n].content) :
    IF hb[hb[n].content[i]].value \notin FieldNames(v)
    THEN /\ i + 1 <= Len(ha[n].content)
         /\ ha[n].content[i] = hb[n].content[i]
         /\ ha[n].content[i + 1] = hb[n].content[i + 1]
         /\ \A m \in Reach(hb, hb[n].content[i]) \cup Reach(hb, hb[n].content[i + 1]) :
              ha[m] = hb[m]
    ELSE \A j \in 1..Len(v.fields) :
           ( /\ yamlTagOf(v.fields[j]) = hb[hb[n].content[i]].value
             /\ \A i2 \in KeyPositions(hb[n].content) :
                  hb[hb[n].content[i2]].value = hb[hb[n].content[i]].value => i2 = i
             /\ \A j2 \in 1..Len(v.fields) :
                  yamlTagOf(v.fields[j2]) = yamlTagOf(v.fields[j]) => j2 = j
             /\ v.fields[j].v.k = "struct"
             /\ hb[hb[n].content[i + 1]].kind = "Mapping" )
           => Additive(hb, ha, hb[n].content[i + 1], v.fields[j].v)

RecordMergeIntoMapping ==
  /\ Called /\ st = "ok"
  /\ CallValue.k = "struct"
  /\ pre[Merged].kind = "Mapping"

RecordAdditivity ==
  RecordMergeIntoMapping
    => Additive(Rebased(pre, target), h, Merged, CallValue)

\* a pair the Record does not name was kept while a named value was
\* rewritten and a new pair was appended
UntouchedPairKept ==
  /\ RecordMergeIntoMapping
  /\ \E i \in KeyPositions(pre[Merged].content) :
       pre[pre[Merged].content[i]].value \notin FieldNames(CallValue)
  /\ Len(h[Merged].content) > Len(pre[Merged].content)
  /\ \E i \in KeyPositions(pre[Merged].content) :
       h[pre[Merged].content[i + 1]].value
         # pre[pre[Merged].content[i + 1]].value

(***************************************************************************)
(* C3.  Mapping replacement (as claimed).  After a Mapping merge, at the   *)
(* top level or nested, the key set of the resulting node is exactly the   *)
(* key set of the new map.                                                 *)
(***************************************************************************)
MapKeys(v) == {Sprintf_key(v.entries[i].key) : i \in 1..Len(v.entries)}

MappingReplacement ==
  (Called /\ st = "ok" /\ CallValue.k = "map")
    => KeysOf(h, Merged) = MapKeys(CallValue)

(***************************************************************************)
(* C4.  Sequence positional reuse.  Merging a sequence of length N into a   *)
(* node with M children yields a Sequence node with N children: child i    *)
(* is the node that was child i for i <= min(N, M), the others are new     *)
(* nodes, the children stand for the elements in order, and the original   *)
(* children beyond N are not in the tree any more.                         *)
(***************************************************************************)
PositionalReuse(hb, ha, n, elems) ==
  /\ ha[n].kind = "Sequence"
  /\ ha[n].tag = "!!seq"
  /\ Len(ha[n].content) = Len(elems)
  /\ \A i \in 1..Len(elems) :
       /\ i <= Len(hb[n].content) => ha[n].content[i] = hb[n].content[i]
       /\ i > Len(hb[n].content)
            => /\ ha[n].content[i] > Len(hb)
               /\ \A j \in 1..Len(elems) : ha[n].content[j] = ha[n].content[i] => j = i
       /\ elems[i].k = "int"
            => /\ ha[ha[n].content[i]].tag = "!!int"
               /\ IsDecimalText(ha[ha[n].content[i]].value)
               /\ DecimalValue(ha[ha[n].content[i]].value) = elems[i].n
  /\ \A i \in 1..Len(hb[n].content) :
       i > Len(elems) => hb[n].content[i] \notin Reach(ha, root)

\* the value node of the only pair of n whose key is key, if there is one
PairValue(hp, n, key) ==
  hp[n].content[(CHOOSE i \in KeyPositions(hp[n].content) :
                   hp[hp[n].content[i]].value = key) + 1]

HasOnePair(hp, n, key) ==
  Cardinality({i \in KeyPositions(hp[n].content) : hp[hp[n].content[i]].value = key}) = 1

SequenceReuse ==
  /\ (last = "updateNode" /\ st = "ok" /\ ord.k = "slice")
       => PositionalReuse(pre, h, target, ord.elems)
  /\ (RecordMergeIntoMapping /\ TopCalled)
       => \A j \in 1..Len(CallValue.fields) :
            ( /\ CallValue.fields[j].v.k = "slice"
              /\ \A j2 \in 1..Len(CallValue.fields) :
                   yamlTagOf(CallValue.fields[j2]) = yamlTagOf(CallValue.fields[j]) => j2 = j
              /\ HasOnePair(pre, Merged, yamlTagOf(CallValue.fields[j])) )
            => PositionalReuse(pre, h,
                               PairValue(pre, Merged,
                                         yamlTagOf(CallValue.fields[j])),
                               CallValue.fields[j].v.elems)

\* a sequence was merged into a longer one, and one into a shorter one
SequenceShrunk ==
  /\ last = "updateNode" /\ st = "ok" /\ ord.k = "slice"
  /\ pre[target].kind = "Sequence"
  /\ Len(ord.elems) >= 1
  /\ Len(pre[target].content) > Len(ord.elems)

SequenceGrown ==
  /\ TopCalled /\ st = "ok" /\ RecordMergeIntoMapping
  /\ \E j \in 1..Len(CallValue.fields) :
       /\ CallValue.fields[j].v.k = "slice"
       /\ HasOnePair(pre, Merged, yamlTagOf(CallValue.fields[j]))
       /\ Len(pre[PairValue(pre, Merged,
                            yamlTagOf(CallValue.fields[j]))].content) >= 1
       /\ Len(CallValue.fields[j].v.elems)
            > Len(pre[PairValue(pre, Merged,
                                yamlTagOf(CallValue.fields[j]))].content)

(***************************************************************************)
(* C5.  Idempotence (as claimed).  Merging the same value into the tree a  *)
(* second time leaves the tree as the first merge left it.                 *)
(***************************************************************************)
Idempotence ==
  (last = "merge" /\ calls >= 2 /\ st = "ok") => TreeEq(pre, root, h, root)

(***************************************************************************)
(* C6.  Comment preservation.                                              *)
(***************************************************************************)
\* a Record whose field names are a superset of the mapping's keys has been
\* merged into the tree
RecordSupersetMerge ==
  /\ TopCalled /\ st = "ok"
  /\ CallValue.k = "struct"
  /\ pre[Merged].kind = "Mapping"
  /\ KeysOf(pre, Merged) \subseteq FieldNames(CallValue)

\* As claimed: after such a merge every commented node is still in the tree
\* with its comment, also below nested sequences and mappings.
CommentsAllPreserved ==
  RecordSupersetMerge
    => \A m \in Reach(pre, root) :
         pre[m].comment # 0 => m \in Reach(h, root) /\ h[m].comment = pre[m].comment

\* the value v has something for every node below n: shapes agree, a
\* sequence value is no shorter than the children list, a map value has
\* every key of the mapping
RECURSIVE Covers(_, _, _)
Covers(hb, n, v) ==
  CASE v.k = "iface" -> v.isnil \/ Covers(hb, n, v.e)
    [] v.k = "struct" ->
         /\ hb[n].kind = "Mapping"
         /\ \A i \in KeyPositions(hb[n].content), j \in 1..Len(v.fields) :
              hb[hb[n].content[i]].value = yamlTagOf(v.fields[j])
                => Covers(hb, hb[n].content[i + 1], v.fields[j].v)
    [] v.k = "slice" ->
         /\ hb[n].kind = "Sequence"
         /\ Len(v.elems) >= Len(hb[n].content)
         /\ \A i \in 1..Len(hb[n].content) : Covers(hb, hb[n].content[i], v.elems[i])
    [] v.k = "map" ->
         /\ hb[n].kind = "Mapping"
         /\ KeysOf(hb, n) \subseteq MapKeys(v)
         /\ \A i, i2 \in KeyPositions(hb[n].content) :
              hb[hb[n].content[i]].value = hb[hb[n].content[i2]].value => i = i2
         /\ \A i \in KeyPositions(hb[n].content), j \in 1..Len(v.entries) :
              hb[hb[n].content[i]].value = Sprintf_key(v.entries[j].key)
                => Covers(hb, hb[n].content[i + 1], v.entries[j].v)
    [] OTHER -> hb[n].kind = "Scalar"

\* Amended: no call writes a comment, and after the merge of a Record that
\* covers the tree every node of the tree is still in it.
CommentsPreservedWhenCovered ==
  /\ Called => \A m \in 1..Len(pre) : h[m].comment = pre[m].comment
  /\ (RecordSupersetMerge /\ Covers(pre, Merged, CallValue))
       => Reach(pre, root) \subseteq Reach(h, root)

\* a covering Record rewrote a commented scalar and made a commented
\* sequence longer
CoveredCommentsKept ==
  /\ RecordSupersetMerge /\ Covers(pre, Merged, CallValue)
  /\ \E m \in Reach(pre, root) : pre[m].comment # 0 /\ h[m].value # pre[m].value
  /\ \E m \in Reach(pre, root) :
       /\ pre[m].comment # 0 /\ pre[m].kind = "Sequence"
       /\ Len(pre[m].content) >= 1
       /\ Len(h[m].content) > Len(pre[m].content)

(***************************************************************************)
(* C7.  Only changed values are rewritten (as claimed).  A scalar merged   *)
(* into a Scalar node that already denotes the same value leaves the       *)
(* node's tag and value text as they were.                                 *)
(***************************************************************************)
UnchangedScalarKept ==
  ( /\ last = "updateNode" /\ st = "ok"
    /\ IsScalarValue(ord)
    /\ pre[target].kind = "Scalar"
    /\ Denotes(pre[target].tag, pre[target].value, ord) )
    => /\ h[target].tag = pre[target].tag
       /\ h[target].value = pre[target].value

(***************************************************************************)
(* C8.  Scalar round trip (as claimed).  After the merge of an integer,    *)
(* signed or unsigned, into any node the node is a Scalar tagged !!int     *)
(* whose value is the decimal text form of the integer, and its style and  *)
(* column are as before.                                                   *)
(***************************************************************************)
IsIntegerNode(hb, ha, n, v) ==
  /\ ha[n].kind = "Scalar"
  /\ ha[n].tag = "!!int"
  /\ IsDecimalText(ha[n].value)
  /\ DecimalValue(ha[n].value) = v.n
  /\ ha[n].style = hb[n].style
  /\ ha[n].column = hb[n].column

IntegerScalarAllKinds ==
  (last = "updateNode" /\ ord.k \in {"int", "uint"})
    => st = "ok" /\ IsIntegerNode(pre, h, target, ord)

\* The signed kinds alone (reflect.Int .. reflect.Int64): the node becomes
\* such a scalar, also when the integer is a Record field.
IntegerScalar ==
  /\ (last = "updateNode" /\ ord.k = "int")
       => st = "ok" /\ IsIntegerNode(pre, h, target, ord)
  /\ (RecordMergeIntoMapping /\ TopCalled)
       => \A j \in 1..Len(CallValue.fields) :
            ( /\ CallValue.fields[j].v.k = "int"
              /\ \A j2 \in 1..Len(CallValue.fields) :
                   yamlTagOf(CallValue.fields[j2]) = yamlTagOf(CallValue.fields[j]) => j2 <= j
              /\ HasOnePair(pre, Merged, yamlTagOf(CallValue.fields[j])) )
            => IsIntegerNode(Rebased(pre, target), h,
                             PairValue(pre, Merged, yamlTagOf(CallValue.fields[j])),
                             CallValue.fields[j].v)

\* a two-digit integer was merged into a sequence node that has children
\* and sits at a column other than 0
IntegerIntoSequence ==
  /\ last = "updateNode" /\ st = "ok" /\ ord.k = "int" /\ ord.n >= 10
  /\ pre[target].kind = "Sequence" /\ Len(pre[target].content) >= 1
  /\ pre[target].column # 0

(***************************************************************************)
(* C9.  Non-string map keys (as claimed).  The merge of a value that       *)
(* holds, at any depth, a map whose key type is not string returns an      *)
(* error.                                                                  *)
(***************************************************************************)
RECURSIVE HasNonStringMap(_)
HasNonStringMap(v) ==
  CASE v.k = "iface" -> ~v.isnil /\ HasNonStringMap(v.e)
    [] v.k = "ptr" -> HasNonStringMap(v.e)
    [] v.k = "struct" -> \E i \in 1..Len(v.fields) : HasNonStringMap(v.fields[i].v)
    [] v.k = "slice" -> \E i \in 1..Len(v.elems) : HasNonStringMap(v.elems[i])
    [] v.k = "map" ->
         \/ v.keyKind # "string"
         \/ \E i \in 1..Len(v.entries) : HasNonStringMap(v.entries[i].v)
    [] OTHER -> FALSE

NonStringKeyRejected ==
  (TopCalled /\ st # "panic" /\ HasNonStringMap(ord)) => st = "err"

(***************************************************************************)
(* C10.  A document node whose number of children is not 1: the merge      *)
(* returns an error and has modified no node; UpdateYAML returns the       *)
(* error and no bytes.                                                     *)
(***************************************************************************)
MalformedDocument ==
  (TopCalled /\ pre[root].kind = "Document" /\ Len(pre[root].content) # 1)
    => /\ st = "err"
       /\ h = pre
       /\ last = "UpdateYAML" => out = "nil"

\* UpdateYAML was given a document with two children
TwoChildrenRejected ==
  /\ last = "UpdateYAML"
  /\ pre[root].kind = "Document" /\ Len(pre[root].content) = 2
  /\ st = "err" /\ out = "nil"

(***************************************************************************)
(* C11.  Value shapes at a Document root.                                  *)
(***************************************************************************)
\* a slice was handed to updateYamlFromStruct / UpdateYAML on a document
\* that has exactly one child
SliceAtDocumentRoot ==
  /\ TopCalled
  /\ pre[root].kind = "Document" /\ Len(pre[root].content) = 1
  /\ CallValue.k = "slice"

\* As claimed: the merge of a Sequence value at a Document root succeeds and
\* leaves the child a Sequence node with one child per element, in order.
SequenceAtRootAccepted ==
  SliceAtDocumentRoot
    => /\ st = "ok"
       /\ h[pre[root].content[1]].kind = "Sequence"
       /\ Len(h[pre[root].content[1]].content) = Len(CallValue.elems)
       /\ \A i \in 1..Len(CallValue.elems) :
            CallValue.elems[i].k = "int"
              => h[h[pre[root].content[1]].content[i]].value = Sprintf_d(CallValue.elems[i].n)

\* Amended: the merge of a Sequence value at a Document root returns an
\* error (UpdateYAML returns no bytes); the child then is a Mapping node
\* with the children list it had, none of them made from the value.
SequenceAtRootRejected ==
  SliceAtDocumentRoot
    => /\ st = "err"
       /\ last = "UpdateYAML" => out = "nil"
       /\ h[pre[root].content[1]].kind = "Mapping"
       /\ h[pre[root].content[1]].tag = "!!map"
       /\ h[pre[root].content[1]].content = pre[pre[root].content[1]].content
       /\ Len(h) = Len(pre)

\* a non-empty slice was refused at a document whose child was a sequence
\* with children
SliceRefusedAtSequenceRoot ==
  /\ SliceAtDocumentRoot
  /\ Len(CallValue.elems) >= 2
  /\ pre[pre[root].content[1]].kind = "Sequence"
  /\ Len(pre[pre[root].content[1]].content) >= 1
  /\ st = "err"

(***************************************************************************)
(* C12.  Order after a Record merge.  After a Record merge into a Mapping  *)
(* node the children that were there are at the positions they had, in     *)
(* the order they had, and the new pairs follow them at the end of the     *)
(* children list, one pair per field name that had no pair, in the order   *)
(* in which the fields are declared.                                       *)
(***************************************************************************)
\* the texts findNodes compares the field names with
LookupKeys(hp, n) ==
  {hp[hp[n].content[i]].value : i \in {j \in 1..Len(hp[n].content) : j % 2 = 1}}

\* the field names that have no pair when their field is reached, in
\* declaration order; len is the length of the children list by then (the
\* key of a pair appended to a list of odd length is not at a key position)
RECURSIVE NewFieldNames(_, _, _, _)
NewFieldNames(seen, fields, i, len) ==
  IF i > Len(fields) THEN <<>>
  ELSE IF yamlTagOf(fields[i]) \in seen THEN NewFieldNames(seen, fields, i + 1, len)
  ELSE <<yamlTagOf(fields[i])>>
         \o NewFieldNames(IF len % 2 = 0 THEN seen \cup {yamlTagOf(fields[i])} ELSE seen,
                          fields, i + 1, len + 2)

PairsInOrder(hb, ha, n, names) ==
  /\ Len(ha[n].content) = Len(hb[n].content) + 2 * Len(names)
  /\ SubSeq(ha[n].content, 1, Len(hb[n].content)) = hb[n].content
  /\ \A j \in 1..Len(names) :
       /\ ha[n].content[Len(hb[n].content) + 2 * j - 1] > Len(hb)
       /\ ha[n].content[Len(hb[n].content) + 2 * j] > Len(hb)
       /\ ha[ha[n].content[Len(hb[n].content) + 2 * j - 1]].kind = "Scalar"
       /\ ha[ha[n].content[Len(hb[n].content) + 2 * j - 1]].value = names[j]

RecordOrder ==
  RecordMergeIntoMapping
    => PairsInOrder(pre, h, Merged,
                    NewFieldNames(LookupKeys(pre, Merged), CallValue.fields, 1,
                                  Len(pre[Merged].content)))

\* two new pairs were appended after the two pairs that were there
TwoPairsAppended ==
  /\ RecordMergeIntoMapping
  /\ Len(pre[Merged].content) = 4
  /\ Len(NewFieldNames(LookupKeys(pre, Merged), CallValue.fields, 1,
                                  Len(pre[Merged].content))) >= 2

(***************************************************************************)
(* C13.  Determinism of a Mapping merge (as claimed).  The tree a Mapping  *)
(* merge produces does not depend on the order in which the map's entries  *)
(* are iterated: the run that iterates the same map in any other order,    *)
(* from the same tree, ends with the same outcome and an identical tree.   *)
(***************************************************************************)
\* the outcome of the last call had it iterated the value as d
Rerun(d) ==
  CASE last = "merge" -> updateYamlFromStruct(pre, target, d)
    [] last = "UpdateYAML" -> UpdateYAMLResult(pre, target, d)
    [] OTHER -> updateNode(pre, target, d)

MappingMergeDeterministic ==
  (Called /\ st = "ok" /\ CallValue.k = "map")
    => \A d \in Orderings(data) :
         /\ Rerun(d).st = "ok"
         /\ TreeEq(h, root, Rerun(d).h, root)

(***************************************************************************)
(* C14.  Indentation of a new nested mapping (as claimed).  When a Record  *)
(* merge through a document introduces a nested Record field that the      *)
(* source does not have, every key of the new nested mapping has a column  *)
(* that is the detected indent width greater than the column of its        *)
(* parent key node.                                                        *)
(***************************************************************************)
\* the positions in n's children of the new key nodes carrying name
NewKeyPositions(hb, ha, n, name) ==
  {i \in KeyPositions(ha[n].content) :
     ha[n].content[i] > Len(hb) /\ ha[ha[n].content[i]].value = name}

NewNestedIndent ==
  (TopCalled /\ RecordMergeIntoMapping /\ pre[root].kind = "Document")
    => \A j \in 1..Len(CallValue.fields) :
         CallValue.fields[j].v.k = "struct"
           => \A i \in NewKeyPositions(pre, h, Merged, yamlTagOf(CallValue.fields[j])) :
                \A c \in KeyPositions(h[h[Merged].content[i + 1]].content) :
                  h[h[h[Merged].content[i + 1]].content[c]].column
                    = h[h[Merged].content[i]].column + indent

(***************************************************************************)
(* C15.  Complete pairs (as claimed).  In every state that merges through  *)
(* updateYamlFromStruct or UpdateYAML reach, every Mapping node of the     *)
(* tree has an even number of children, and no merge has read past the     *)
(* end of a children list.                                                 *)
(***************************************************************************)
EvenMappingChildren ==
  last # "updateNode"
    => /\ \A n \in Reach(h, root) :
            h[n].kind = "Mapping" => Len(h[n].content) % 2 = 0
       /\ st # "panic"

(***************************************************************************)
(* C16.  Key nodes (as claimed).  After a merge, in every Mapping node     *)
(* the merge has produced or updated, each key node (the children at the   *)
(* key positions) is a Scalar tagged !!str.                                *)
(***************************************************************************)
\* the nodes of the tree the last call made or wrote to
Touched == {n \in Reach(h, root) : n > Len(pre) \/ h[n] # pre[n]}

StringKeyNodes ==
  (TopCalled /\ st = "ok")
    => \A n \in Touched :
         h[n].kind = "Mapping"
           => \A i \in 1..Len(h[n].content) :
                i % 2 = 1 => /\ h[h[n].content[i]].kind = "Scalar"
                             /\ h[h[n].content[i]].tag = "!!str"

(***************************************************************************)
(* C17.  Column normalization (as claimed).  After a merge at a Document   *)
(* root the Document node and its child have column 0 and every            *)
(* descendant of the child has been shifted by the same amount: the        *)
(* difference of the columns of any two of them is what it was.            *)
(***************************************************************************)
\* the nodes below the root child when the call began
Descendants == Reach(pre, pre[root].content[1]) \ {pre[root].content[1]}

RelativeColumnsKept ==
  ( /\ TopCalled /\ st = "ok"
    /\ pre[root].kind = "Document" /\ Len(pre[root].content) = 1 )
    => /\ h[root].column = 0
       /\ h[pre[root].content[1]].column = 0
       /\ \A a, b \in Descendants :
            h[a].column - h[b].column = pre[a].column - pre[b].column

(***************************************************************************)
(* C18.  Style and column of a new pair (as claimed).  A new key/value     *)
(* pair, in a Record merge and in a Mapping merge alike, has the style     *)
(* and column of the first pair the mapping had (key from the first key,   *)
(* value from the first value); when the mapping had no pair both columns  *)
(* are the mapping's column plus the indent width given to the merge.      *)
(***************************************************************************)
NewPairStyled(hb, ha, n) ==
  \A i \in KeyPositions(ha[n].content) :
    ha[n].content[i] > Len(hb)
      => IF Len(hb[n].content) >= 2
         THEN /\ ha[ha[n].content[i]].style = hb[hb[n].content[1]].style
              /\ ha[ha[n].content[i]].column = hb[hb[n].content[1]].column
              /\ ha[ha[n].content[i + 1]].style = hb[hb[n].content[2]].style
              /\ ha[ha[n].content[i + 1]].column = hb[hb[n].content[2]].column
         ELSE Len(hb[n].content) = 0
                => /\ ha[ha[n].content[i]].column = ha[n].column + indent
                   /\ ha[ha[n].content[i + 1]].column = ha[n].column + indent

\* a Record or a map was merged into a Mapping node
PairsMergedIntoMapping ==
  /\ Called /\ st = "ok"
  /\ CallValue.k \in {"struct", "map"}
  /\ pre[Merged].kind = "Mapping"

NewPairFromFirstPair ==
  PairsMergedIntoMapping => NewPairStyled(Rebased(pre, target), h, Merged)

(***************************************************************************)
(* C19.  Shape disagreement (as claimed).  After a merge into a node of    *)
(* another shape the node represents only the new value: a scalar merged   *)
(* into a former Mapping or Sequence leaves a Scalar without children, a   *)
(* Record merged into a former Sequence or Scalar leaves a Mapping whose   *)
(* children are exactly the pairs of the Record's fields.                  *)
(***************************************************************************)
ScalarIntoCollection ==
  /\ last = "updateNode" /\ st = "ok"
  /\ IsScalarValue(ord)
  /\ pre[target].kind \in {"Mapping", "Sequence"}

RecordIntoOtherShape ==
  /\ Called /\ st = "ok"
  /\ CallValue.k = "struct"
  /\ pre[Merged].kind \in {"Sequence", "Scalar"}

OnlyNewValueLeft ==
  /\ ScalarIntoCollection
       => /\ h[target].kind = "Scalar"
          /\ h[target].content = <<>>
  /\ RecordIntoOtherShape
       => /\ h[Merged].kind = "Mapping"
          /\ Len(h[Merged].content) = 2 * Cardinality(FieldNames(CallValue))
          /\ KeysOf(h, Merged) = FieldNames(CallValue)

(***************************************************************************)
(* C20.  Tree, not graph (as claimed).  After any merges every node        *)
(* reachable from the root is the child of exactly one parent at exactly   *)
(* one position: no children list holds a node twice, no node is in two    *)
(* children lists, and the root is nobody's child; also when two entries   *)
(* of a map or two fields of a Record have the same key text.              *)
(***************************************************************************)
NoNodeTwice(hp, n) ==
  \A i, j \in 1..Len(hp[n].content) :
    hp[n].content[i] = hp[n].content[j] => i = j

IsTree(hp, r) ==
  /\ \A n \in Reach(hp, r) : NoNodeTwice(hp, n) /\ r \notin Range(hp[n].content)
  /\ \A n, m \in Reach(hp, r) :
       n # m => Range(hp[n].content) \cap Range(hp[m].content) = {}

TreeKept == st # "panic" => IsTree(h, root)

(***************************************************************************)
(* C21.  Order of the steps at a Document root (as claimed).  The merge    *)
(* first recurses into the single child and normalizes the columns only    *)
(* afterwards: the tree a successful top-level call leaves is the one      *)
(* obtained by merging the value into the child with the columns as        *)
(* parsed, and then normalizing the columns of the fully merged tree.      *)
(***************************************************************************)
\* the merge into the document's child with the columns not yet normalized
MergedUnnormalized ==
  mergeInto(retagMapping(pre, pre[root].content[1]), pre[root].content[1],
            CallValue)

\* the columns of the fully merged tree, normalized afterwards
NormalizedAfterMerge == unwrapDocument(MergedUnnormalized.h, root)

DocumentMerged ==
  /\ TopCalled /\ st = "ok"
  /\ pre[root].kind = "Document"

MergeThenNormalize ==
  DocumentMerged
    => /\ MergedUnnormalized.st = "ok"
       /\ TreeEq(h, root, NormalizedAfterMerge, root)

====
